---- MODULE Spec2Model ----
(***************************************************************************)
(* A model of the fastxml pull tokenizer: the framer (scanner.go), the     *)
(* token decoder and the pull parser (parser.go) and the lazy attribute    *)
(* sub-parser of StartToken (tags.go and its later revision with           *)
(* GetAttribute).                                                          *)
(*                                                                         *)
(* A byte is a one-character string.  A Go byte slice that aliases the     *)
(* parser's buffer is a record [lo, hi]: the half-open range buf[lo:hi]    *)
(* with 0-based offsets.  Functions of the source that take a []byte take  *)
(* here the sequence of its bytes and return offsets relative to it; the   *)
(* caller shifts them by the offset of the slice in the buffer.  A Go      *)
(* run-time panic (index or slice bounds out of range) is the result kind  *)
(* "Panic".                                                                *)
(***************************************************************************)
EXTENDS Integers, Sequences, FiniteSets, TLC

VARIABLES buf, currentPointer, lastTagName, innerData, ret, lastNext, iter, doc,
          callerBuf, mustCopy, consumed

vars == <<buf, currentPointer, lastTagName, innerData, ret, lastNext, iter, doc,
          callerBuf, mustCopy, consumed>>

(***************************************************************************)
(* Bounds of the model.                                                    *)
(***************************************************************************)
MaxPieces == 3
MaxAttrs == 2
MaxTrail == 1

(***************************************************************************)
(* Byte slices.                                                            *)
(***************************************************************************)
NilSlice == [lo |-> -1, hi |-> -1]

\* emptyBytes of parser.go: an empty slice that is not part of the buffer.
emptyBytes == [lo |-> -2, hi |-> -2]

Slice(lo, hi) == [lo |-> lo, hi |-> hi]

Shift(r, base) == IF r.lo < 0 THEN r ELSE Slice(r.lo + base, r.hi + base)

SLen(r) == r.hi - r.lo

\* s[lo:hi] of a sequence, 0-based and half-open as in Go.
Sub(s, lo, hi) == SubSeq(s, lo + 1, hi)

\* s[lo:]
From(s, lo) == SubSeq(s, lo + 1, Len(s))

\* s[i], 0-based.
At(s, i) == s[i + 1]

\* The bytes a slice of the buffer holds.
Bytes(r) == IF r.lo < 0 THEN <<>> ELSE Sub(buf, r.lo, r.hi)

(***************************************************************************)
(* Library functions of package bytes.                                     *)
(***************************************************************************)
IndexByte(s, b) ==
  IF \E i \in 1..Len(s) : s[i] = b
  THEN (CHOOSE i \in 1..Len(s) : s[i] = b /\ \A j \in 1..(i - 1) : s[j] # b) - 1
  ELSE -1

HasPrefix(s, p) == Len(s) >= Len(p) /\ SubSeq(s, 1, Len(p)) = p

Index(s, p) ==
  IF \E i \in 0..(Len(s) - Len(p)) : Sub(s, i, i + Len(p)) = p
  THEN CHOOSE i \in 0..(Len(s) - Len(p)) :
         /\ Sub(s, i, i + Len(p)) = p
         /\ \A j \in 0..(i - 1) : Sub(s, j, j + Len(p)) # p
  ELSE -1

(***************************************************************************)
(* Character classifier.                                                   *)
(***************************************************************************)
LowerLetters == {"a", "b", "c", "d", "e", "f", "g", "h", "i", "j", "k", "l", "m",
                 "n", "o", "p", "q", "r", "s", "t", "u", "v", "w", "x", "y", "z"}

UpperLetters == {"A", "B", "C", "D", "E", "F", "G", "H", "I", "J", "K", "L", "M",
                 "N", "O", "P", "Q", "R", "S", "T", "U", "V", "W", "X", "Y", "Z"}

Digits == {"0", "1", "2", "3", "4", "5", "6", "7", "8", "9"}

IsHTMLSpaceChar(rn) == rn \in {" ", "\t", "\r", "\n"}

isNameStartChar(rn) == rn \in LowerLetters \cup UpperLetters \cup {":", "_"}

isNameChar(rn) == isNameStartChar(rn) \/ rn \in {"-", "."} \/ rn \in Digits

\* The model's bytes are ASCII, so utf8.DecodeRune yields the byte and size 1.
NextSpaceIndex(s) ==
  IF \E i \in 1..Len(s) : IsHTMLSpaceChar(s[i])
  THEN (CHOOSE i \in 1..Len(s) :
          IsHTMLSpaceChar(s[i]) /\ \A j \in 1..(i - 1) : ~IsHTMLSpaceChar(s[j])) - 1
  ELSE -1

NextNonSpaceIndex(s) ==
  IF \E i \in 1..Len(s) : ~IsHTMLSpaceChar(s[i])
  THEN (CHOOSE i \in 1..Len(s) :
          ~IsHTMLSpaceChar(s[i]) /\ \A j \in 1..(i - 1) : IsHTMLSpaceChar(s[j])) - 1
  ELSE -1

(***************************************************************************)
(* The framer (scanner.go).                                                *)
(***************************************************************************)
cdataPrefix == <<"<", "!", "[", "C", "D", "A", "T", "A", "[">>
cdataSuffix == <<"]", "]", ">">>
commentPrefix == <<"<", "!", "-", "-">>
commentSuffix == <<"-", "-", ">">>
docTypePrefix == <<"<", "!", "D", "O", "C", "T", "Y", "P", "E">>
elementPrefix == <<"<", "!", "E", "L", "E", "M", "E", "N", "T">>
attListPrefix == <<"<", "!", "A", "T", "T", "L", "I", "S", "T">>

cdataPrefLen == Len(cdataPrefix)
cdataSufLen == Len(cdataSuffix)

NoErr == "nil"

\* Not found gives 0, found gives the index of searchByte in s.
nextTokenStartIndex(s, searchByte) ==
  IF Len(s) < 1 THEN -1 ELSE IndexByte(From(s, 1), searchByte) + 1

\* Mutation of scanTillWordEnd: the word ends after its first byte.
scanTillWordEndAfterFirst(s) ==
  IF Len(s) = 0 THEN 0
  ELSE IF ~isNameStartChar(At(s, 0)) THEN 0
  ELSE 1

scanTillWordEnd(s) ==
  IF Len(s) = 0 THEN 0
  ELSE IF ~isNameStartChar(At(s, 0)) THEN 0
  ELSE IF \E i \in 1..(Len(s) - 1) : ~isNameChar(At(s, i))
       THEN CHOOSE i \in 1..(Len(s) - 1) :
              ~isNameChar(At(s, i)) /\ \A j \in 1..(i - 1) : isNameChar(At(s, j))
       ELSE 1

isSpecialTag(s) == HasPrefix(s, <<"<", "!">>)

scanFullTag(s) == [n |-> nextTokenStartIndex(s, ">") + 1, err |-> NoErr]

scanCDATADeclaration(s) ==
  LET endIdx == Index(s, cdataSuffix)
  IN  IF endIdx = -1 THEN [n |-> 0, err |-> "no CDATA suffix found"]
      ELSE [n |-> endIdx + cdataSufLen, err |-> NoErr]

scanDoctypeDeclaration(s) ==
  LET closeBracket == nextTokenStartIndex(s, "]")
  IN  IF closeBracket = -1
      THEN [n |-> nextTokenStartIndex(s, ">"), err |-> NoErr]
      ELSE [n |-> closeBracket + nextTokenStartIndex(From(s, closeBracket), ">"),
            err |-> NoErr]

scanComment(s) ==
  LET idx == Index(s, commentSuffix)
  IN  IF idx = -1 THEN [n |-> 0, err |-> "comment does not have closing suffix"]
      ELSE [n |-> idx + Len(commentSuffix), err |-> NoErr]

scanSpecial(s) ==
  IF HasPrefix(s, cdataPrefix) THEN scanCDATADeclaration(s)
  ELSE IF HasPrefix(s, docTypePrefix) THEN scanDoctypeDeclaration(s)
  ELSE IF HasPrefix(s, commentPrefix) THEN scanComment(s)
  ELSE [n |-> 0, err |-> "unknown declaration"]

\* Mutation of scanFullCharData: the character data run through the opening
\* bracket that ends them.
scanFullCharDataThroughOpen(s) ==
  IF Len(s) = 0 THEN [n |-> 0, err |-> NoErr]
  ELSE LET openIdx == IndexByte(s, "<")
       IN  IF openIdx = -1 THEN [n |-> Len(s), err |-> NoErr]
           ELSE [n |-> openIdx + 1, err |-> NoErr]

scanFullCharData(s) ==
  IF Len(s) = 0 THEN [n |-> 0, err |-> NoErr]
  ELSE LET openIdx == IndexByte(s, "<")
       IN  IF openIdx = -1 THEN [n |-> Len(s), err |-> NoErr]
           ELSE [n |-> openIdx, err |-> NoErr]

\* The length of the returned data (0 for nil) and the error.
FetchNextToken(s) ==
  IF Len(s) = 0 THEN [n |-> 0, err |-> NoErr]
  ELSE LET Scanned(r) ==
             IF r.err # NoErr THEN [n |-> 0, err |-> r.err]
             ELSE IF r.n <= 0 THEN [n |-> 0, err |-> NoErr]
             ELSE [n |-> r.n, err |-> NoErr]
       IN  Scanned(IF isSpecialTag(s) THEN scanSpecial(s)
                   ELSE IF At(s, 0) = "<" THEN scanFullTag(s)
                   ELSE scanFullCharData(s))

(***************************************************************************)
(* The token decoder (parser.go).  A decoder takes the frame s, its offset *)
(* base in the buffer, and the parser's innerData and lastTagName; it      *)
(* returns the outcome and the new innerData and lastTagName.              *)
(***************************************************************************)
ErrNotAValidTag == "not a valid tag"
ErrInvalidClosingElement == "invalid closing tag"
ErrUnexpectedEOF == "unexpected EOF"
errCommentNotProperlyFormatted == "comment is not properly formatted"

ZeroInnerData ==
  [startName |-> NilSlice, attrBuf |-> NilSlice, endName |-> NilSlice,
   charData |-> NilSlice, charOwned |-> FALSE, charBytes |-> <<>>,
   comment |-> NilSlice, directive |-> NilSlice,
   target |-> NilSlice, inst |-> NilSlice]

Outcome(kind, tok, err, inner, last) ==
  [kind |-> kind, tok |-> tok, err |-> err, inner |-> inner, last |-> last]

Fail(err, inner, last) == Outcome("Error", "nil", err, inner, last)

Panics(inner, last) == Outcome("Panic", "nil", NoErr, inner, last)

sendSelfClosingEnd(inner, last) == [inner EXCEPT !.endName = last]

decodeClosingTag(s, base, inner, last) ==
  IF Len(s) < 4 \/ At(s, 2) = ">" THEN Fail(ErrInvalidClosingElement, inner, last)
  ELSE LET b == From(s, 2)
           nameEndIdx == scanTillWordEnd(b)
       IN  IF nameEndIdx = 0 THEN Fail(ErrInvalidClosingElement, inner, last)
           ELSE IF nameEndIdx >= Len(b) THEN Panics(inner, last)
           ELSE Outcome("Token", "EndElement", NoErr,
                        [inner EXCEPT !.endName = Slice(base + 2, base + 2 + nameEndIdx)],
                        last)

decodeComment(s, base, inner, last) ==
  LET commentEndIdx == Index(s, commentSuffix)
  IN  IF commentEndIdx = -1 THEN Fail(errCommentNotProperlyFormatted, inner, last)
      ELSE IF commentEndIdx = 0 THEN Panics(inner, last)
      ELSE IF At(s, commentEndIdx - 1) = "-" /\ Len(s) < 7
           THEN Fail(errCommentNotProperlyFormatted, inner, last)
      ELSE IF 4 > commentEndIdx THEN Panics(inner, last)
      ELSE Outcome("Token", "Comment", NoErr,
                   [inner EXCEPT !.comment = Slice(base + 4, base + commentEndIdx)], last)

\* cleanEOLChars: the normalized bytes, or a panic when buf[crIdx+1] is read
\* past the end of the slice.
RECURSIVE cleanLoop(_, _)
cleanLoop(s, out) ==
  LET crIdx == IndexByte(s, "\r")
  IN  IF crIdx = -1 THEN [panic |-> FALSE, out |-> out \o s]
      ELSE IF Len(s) > crIdx /\ crIdx + 1 >= Len(s) THEN [panic |-> TRUE, out |-> out]
      ELSE cleanLoop(From(s, crIdx + 1),
                     IF Len(s) > crIdx /\ At(s, crIdx + 1) # "\n"
                     THEN (out \o Sub(s, 0, crIdx)) \o <<"\n">>
                     ELSE out \o Sub(s, 0, crIdx))

cleanEOLChars(s) ==
  IF IndexByte(s, "\r") = -1 THEN [panic |-> FALSE, out |-> s]
  ELSE cleanLoop(s, <<>>)

decodeCharData(s, base, inner, last) ==
  LET raw == [inner EXCEPT !.charData = Slice(base, base + Len(s)),
                           !.charOwned = FALSE, !.charBytes = <<>>]
  IN  IF IndexByte(s, "\r") # -1
      THEN LET c == cleanEOLChars(s)
           IN  IF c.panic THEN Panics(raw, last)
               ELSE Outcome("Token", "CharData", NoErr,
                            [raw EXCEPT !.charData = NilSlice, !.charOwned = TRUE,
                                        !.charBytes = c.out], last)
      ELSE Outcome("Token", "CharData", NoErr, raw, last)

\* Mutation of decodeCdata: the line ends of the section are normalized as
\* those of character data are.
decodeCdataNormalized(s, base, inner, last) ==
  IF cdataPrefLen > Len(s) - cdataSufLen THEN Panics(inner, last)
  ELSE decodeCharData(Sub(s, cdataPrefLen, Len(s) - cdataSufLen), base + cdataPrefLen,
                      inner, last)

\* buf[cdataPrefLen : len(buf)-cdataSufLen]
decodeCdata(s, base, inner, last) ==
  IF cdataPrefLen > Len(s) - cdataSufLen THEN Panics(inner, last)
  ELSE Outcome("Token", "CharData", NoErr,
               [inner EXCEPT !.charData = Slice(base + cdataPrefLen,
                                                base + Len(s) - cdataSufLen),
                             !.charOwned = FALSE, !.charBytes = <<>>], last)

\* Mutation of selfClosingName: the last byte of the frame is tested instead of
\* the byte before the closing bracket.
selfClosingNameLastByte(s, tagName, last) ==
  IF At(s, Len(s) - 1) = "/" THEN tagName ELSE last

\* The pending self-close name after a start tag: the byte before the closing
\* bracket decides.
selfClosingName(s, tagName, last) == IF At(s, Len(s) - 2) = "/" THEN tagName ELSE last

decodeSimpleTag(s, base, inner, last) ==
  LET tagNameIdx == scanTillWordEnd(From(s, 1))
      tagName == Slice(base + 1, base + tagNameIdx + 1)
      last1 == selfClosingName(s, tagName, last)
      inner1 == [inner EXCEPT !.startName = tagName, !.attrBuf = NilSlice]
      rest == From(s, tagNameIdx + 1)
      skipIdx == IF NextNonSpaceIndex(rest) = -1 THEN Len(rest)
                 ELSE NextNonSpaceIndex(rest)
      b == From(rest, skipIdx)
  IN  IF Len(s) < 2 THEN Panics(inner, last)
      ELSE IF Len(b) = 0 THEN Panics(inner1, last1)
      ELSE IF At(b, 0) # ">" /\ At(b, 0) # "/"
           THEN Outcome("Token", "StartToken", NoErr,
                        [inner1 EXCEPT !.attrBuf = Slice(base + tagNameIdx + 1 + skipIdx,
                                                         base + Len(s))], last1)
      ELSE Outcome("Token", "StartToken", NoErr, inner1, last1)

\* Mutation of decodeDeclaration: the directive runs two bytes past buf[len-1],
\* beyond the frame.
decodeDeclarationPastFrame(s, base, inner, last) ==
  IF ~(HasPrefix(s, docTypePrefix) \/ HasPrefix(s, elementPrefix)
       \/ HasPrefix(s, attListPrefix))
  THEN Fail("unknown declaration", inner, last)
  ELSE Outcome("Token", "Directive", NoErr,
               [inner EXCEPT !.directive = Slice(base + 2, base + Len(s) + 1)], last)

\* Directive(buf[2 : len(buf)-1])
decodeDeclaration(s, base, inner, last) ==
  IF ~(HasPrefix(s, docTypePrefix) \/ HasPrefix(s, elementPrefix)
       \/ HasPrefix(s, attListPrefix))
  THEN Fail("unknown declaration", inner, last)
  ELSE Outcome("Token", "Directive", NoErr,
               [inner EXCEPT !.directive = Slice(base + 2, base + Len(s) - 1)], last)

\* Mutation of decodeProcessInstruction: the instruction begins one byte after
\* the target, whatever whitespace follows.
decodeProcessInstructionOneSpace(s, base, inner, last) ==
  LET lenOfPrefix == 2
      endInstIdx == Len(s) - lenOfPrefix
      endTargetIdx == NextSpaceIndex(s)
  IN  IF endTargetIdx = -1
      THEN IF lenOfPrefix > endInstIdx THEN Panics(inner, last)
           ELSE Outcome("Token", "ProcInst", NoErr,
                        [inner EXCEPT !.target = Slice(base + lenOfPrefix, base + endInstIdx),
                                      !.inst = emptyBytes], last)
      ELSE IF lenOfPrefix > endTargetIdx \/ endTargetIdx + 1 > endInstIdx
           THEN Panics(inner, last)
           ELSE Outcome("Token", "ProcInst", NoErr,
                        [inner EXCEPT
                           !.target = Slice(base + lenOfPrefix, base + endTargetIdx),
                           !.inst = Slice(base + endTargetIdx + 1, base + endInstIdx)], last)

decodeProcessInstruction(s, base, inner, last) ==
  LET lenOfPrefix == 2
      endInstIdx == Len(s) - lenOfPrefix
      endTargetIdx == NextSpaceIndex(s)
  IN  IF endTargetIdx = -1
      THEN IF lenOfPrefix > endInstIdx THEN Panics(inner, last)
           ELSE Outcome("Token", "ProcInst", NoErr,
                        [inner EXCEPT !.target = Slice(base + lenOfPrefix, base + endInstIdx),
                                      !.inst = emptyBytes], last)
      ELSE LET beginInstIdx == NextNonSpaceIndex(From(s, endTargetIdx))
           IN  IF lenOfPrefix > endTargetIdx \/ endTargetIdx + beginInstIdx > endInstIdx
               THEN Panics(inner, last)
               ELSE Outcome("Token", "ProcInst", NoErr,
                            [inner EXCEPT
                               !.target = Slice(base + lenOfPrefix, base + endTargetIdx),
                               !.inst = Slice(base + endTargetIdx + beginInstIdx,
                                              base + endInstIdx)], last)

decodeToken(s, base, inner, last) ==
  IF Len(s) = 0 THEN Fail(ErrUnexpectedEOF, inner, last)
  ELSE IF Len(s) < 3 /\ At(s, 0) = "<" THEN Fail(ErrNotAValidTag, inner, last)
  ELSE IF At(s, 0) # "<" THEN decodeCharData(s, base, inner, last)
  ELSE IF At(s, 1) = "/" THEN decodeClosingTag(s, base, inner, last)
  ELSE IF At(s, 1) = "!" /\ At(s, 2) = "-" /\ Len(s) < 4 THEN Panics(inner, last)
  ELSE IF At(s, 1) = "!" /\ At(s, 2) = "-" /\ At(s, 3) = "-"
       THEN decodeComment(s, base, inner, last)
  ELSE IF Len(s) >= 11 /\ At(s, 1) = "!" /\ At(s, 2) = "["
       THEN decodeCdata(s, base, inner, last)
  ELSE IF At(s, 1) = "?" THEN decodeProcessInstruction(s, base, inner, last)
  ELSE IF At(s, 1) = "!" THEN decodeDeclaration(s, base, inner, last)
  ELSE decodeSimpleTag(s, base, inner, last)

(***************************************************************************)
(* The attribute sub-parser (parser.go, tags.go).                          *)
(***************************************************************************)
MinAttrLen == 4

AttrOut(name, value, skip, err, panic) ==
  [name |-> name, value |-> value, skip |-> skip, err |-> err, panic |-> panic]

\* start and end of the next word, err as in the source.
NextWordIndex(s) ==
  LET Stopped(start, stop) ==
        IF stop >= Len(s)
        THEN [start |-> start, end |-> stop, err |-> NoErr, panic |-> FALSE]
        ELSE IF IsHTMLSpaceChar(At(s, stop)) \/ At(s, stop) = "="
             THEN [start |-> start, end |-> stop, err |-> NoErr, panic |-> FALSE]
        ELSE [start |-> stop, end |-> 0, err |-> "rune is not valid name part",
              panic |-> FALSE]
      Started(start) ==
        IF start = -1 THEN [start |-> 0, end |-> 0, err |-> NoErr, panic |-> TRUE]
        ELSE IF ~isNameStartChar(At(s, start))
             THEN [start |-> start, end |-> 0, err |-> "rune is not valid start of name",
                   panic |-> FALSE]
        ELSE Stopped(start, CHOOSE i \in (start + 1)..Len(s) :
                              /\ (i = Len(s) \/ ~isNameChar(At(s, i)))
                              /\ \A j \in (start + 1)..(i - 1) : isNameChar(At(s, j)))
  IN  Started(NextNonSpaceIndex(s))

NextWord(s) ==
  LET Word(w) ==
        IF w.panic \/ w.err # NoErr
        THEN [word |-> NilSlice, endIdx |-> 0, err |-> w.err, panic |-> w.panic]
        ELSE [word |-> Slice(w.start, w.end), endIdx |-> w.end, err |-> NoErr,
              panic |-> FALSE]
  IN  Word(NextWordIndex(s))

NextQuotedWordIndex(s) ==
  LET Closed(start, quote, end) ==
        IF quote # "'" /\ quote # "\""
        THEN [start |-> 0, end |-> 0, panic |-> FALSE,
              err |-> "no quotation mark on the beginning of the word"]
        ELSE IF end = -1
             THEN [start |-> 0, end |-> 0, panic |-> FALSE,
                   err |-> "word is not properly quoted"]
        ELSE [start |-> start, end |-> start + end + 1, err |-> NoErr, panic |-> FALSE]
      Started(start) ==
        IF start = -1 THEN [start |-> 0, end |-> 0, err |-> NoErr, panic |-> TRUE]
        ELSE Closed(start, At(s, start), IndexByte(From(s, start + 1), At(s, start)))
  IN  Started(NextNonSpaceIndex(s))

\* Mutation of NextQuotedWord: the word keeps its quotes.
NextQuotedWordWithQuotes(s) ==
  LET Word(w) ==
        IF w.panic \/ w.err # NoErr
        THEN [word |-> NilSlice, endIdx |-> 0, err |-> w.err, panic |-> w.panic]
        ELSE [word |-> Slice(w.start, w.end + 1), endIdx |-> w.end, err |-> NoErr,
              panic |-> FALSE]
  IN  Word(NextQuotedWordIndex(s))

\* buf[start+1 : end], the word between the quotes.
NextQuotedWord(s) ==
  LET Word(w) ==
        IF w.panic \/ w.err # NoErr
        THEN [word |-> NilSlice, endIdx |-> 0, err |-> w.err, panic |-> w.panic]
        ELSE [word |-> Slice(w.start + 1, w.end), endIdx |-> w.end, err |-> NoErr,
              panic |-> FALSE]
  IN  Word(NextQuotedWordIndex(s))

\* Name and value are offsets into s.
decodeTagAttribute(s) ==
  IF Len(s) = 0 \/ At(s, 0) = ">" THEN AttrOut(NilSlice, NilSlice, -1, NoErr, FALSE)
  ELSE IF IndexByte(s, "=") = -1
       THEN AttrOut(NilSlice, NilSlice, 0, "no equal sign in attributes", FALSE)
  ELSE IF At(s, NextNonSpaceIndex(s)) = ">"
       THEN AttrOut(NilSlice, NilSlice, -1, NoErr, FALSE)
  ELSE LET Valued(n, endAttrNameIdx, equalIdx, v) ==
             IF v.panic \/ v.err # NoErr
             THEN AttrOut(NilSlice, NilSlice, 0, v.err, v.panic)
             ELSE AttrOut(n.word, Shift(v.word, endAttrNameIdx + equalIdx),
                          endAttrNameIdx + v.endIdx + equalIdx + 1, NoErr, FALSE)
           Equal(n, endAttrNameIdx, equalIdx) ==
             Valued(n, endAttrNameIdx, equalIdx,
                    NextQuotedWord(From(s, endAttrNameIdx + equalIdx)))
           Named(n) ==
             IF n.panic \/ n.err # NoErr
             THEN AttrOut(NilSlice, NilSlice, 0, n.err, n.panic)
             ELSE Equal(n, n.endIdx, nextTokenStartIndex(From(s, n.endIdx - 1), "="))
       IN  Named(NextWord(s))

\* Mutation of HasAttributes: whether attributes are left to return.
HasAttributesLeft(inner) == inner.attrBuf # NilSlice /\ SLen(inner.attrBuf) > MinAttrLen

\* return s.attrBuf != nil
HasAttributes(inner) == inner.attrBuf # NilSlice

\* Mutation of StripPrefix: the attribute name is compared whole.
StripPrefixNone(name) == name

\* strings.IndexByte(attrName, ':') and attrName[colIdx+1:]
StripPrefix(name) ==
  LET colIdx == IndexByte(name, ":")
  IN  IF colIdx # -1 THEN From(name, colIdx + 1) ELSE name

\* The loop of GetAttribute over the bytes ab of attrBuf.  One pass of the
\* loop is a function of nextAttrIdx and skipIdx, so a pass that leaves both
\* unchanged repeats for ever: the call does not return ("Diverges").
RECURSIVE GetAttributeLoop(_, _, _, _)
GetAttributeLoop(ab, name, nextAttrIdx, skipIdx) ==
  IF Len(ab) - skipIdx <= MinAttrLen
  THEN [kind |-> "NoSuchAttribute", value |-> NilSlice, err |-> NoErr]
  ELSE LET Pass(d, attrName, next) ==
             IF d.panic THEN [kind |-> "Panic", value |-> NilSlice, err |-> NoErr]
             ELSE IF d.err # NoErr
                  THEN [kind |-> "Error", value |-> NilSlice, err |-> d.err]
             ELSE IF d.name # NilSlice /\ attrName = name
                  THEN [kind |-> "Value", value |-> Shift(d.value, nextAttrIdx),
                        err |-> NoErr]
             ELSE IF d.name = NilSlice /\ name = <<>>
                  THEN [kind |-> "Value", value |-> NilSlice, err |-> NoErr]
             ELSE IF next = nextAttrIdx /\ d.skip = skipIdx
                  THEN [kind |-> "Diverges", value |-> NilSlice, err |-> NoErr]
             ELSE GetAttributeLoop(ab, name, next, d.skip)
           Decoded(d) ==
             Pass(d,
                  StripPrefix(Sub(ab, nextAttrIdx + d.name.lo, nextAttrIdx + d.name.hi)),
                  IF d.skip # -1 THEN nextAttrIdx + d.skip ELSE nextAttrIdx)
       IN  Decoded(decodeTagAttribute(From(ab, nextAttrIdx)))

(***************************************************************************)
(* The documents the parser is run on.                                     *)
(*                                                                         *)
(* Raw buffers are concatenations of at most MaxPieces pieces of one of    *)
(* three families of byte strings.  Tag documents are one start tag        *)
(* rendered from a list of at most MaxAttrs well-formed attributes.        *)
(***************************************************************************)
TagPieces ==
  {<<"<">>, <<">">>, <<"/">>, <<"a">>, <<" ">>, <<"1">>,
   <<"<", "a">>, <<"/", ">">>, <<"<", "/">>}

TextPieces ==
  {<<"a">>, <<"\r">>, <<"\n">>, <<"<">>, <<">">>, <<" ">>, <<"?">>,
   <<"<", "?">>, <<"<", "b", ">">>}

SpecialPieces ==
  {commentPrefix, commentSuffix, <<"-">>, cdataPrefix, cdataSuffix, docTypePrefix,
   <<"<", "!">>, <<"]">>, <<">">>, <<"a">>}

RECURSIVE Concat(_)
Concat(ss) == IF ss = <<>> THEN <<>> ELSE Head(ss) \o Concat(Tail(ss))

BuffersOf(pieces) ==
  {Concat(ps) : ps \in UNION {[1..n -> pieces] : n \in 0..MaxPieces}}

RawBuffers == BuffersOf(TagPieces) \cup BuffersOf(TextPieces) \cup BuffersOf(SpecialPieces)

AttrNames == {<<"a">>, <<"n", ":", "a">>}

\* The value and the quote around it: the value may be empty and may hold
\* the other quote character.
AttrValues == {[q |-> "\"", v |-> <<"'">>], [q |-> "'", v |-> <<>>]}

\* sp: whether whitespace surrounds the equal sign.
Attrs == [name : AttrNames, qv : AttrValues, sp : BOOLEAN]

Spaces(n) == [i \in 1..n |-> " "]

RenderAttr(a) ==
  <<" ">> \o a.name \o (IF a.sp THEN <<" ", "=", "\t">> ELSE <<"=">>)
          \o <<a.qv.q>> \o a.qv.v \o <<a.qv.q>>

RenderTag(as, trail, selfClose) ==
  <<"<", "t">> \o Concat([i \in 1..Len(as) |-> RenderAttr(as[i])]) \o Spaces(trail)
               \o (IF selfClose THEN <<"/", ">">> ELSE <<">">>)

TagDocs ==
  [attrs : UNION {[1..n -> Attrs] : n \in 0..MaxAttrs}, trail : 0..MaxTrail,
   selfClose : BOOLEAN, wf : {TRUE}]

RawDoc == [attrs |-> <<>>, trail |-> 0, selfClose |-> FALSE, wf |-> FALSE]

\* The names GetAttribute is asked for.
LookupNames == {<<"a">>, <<"n", ":", "a">>, <<"c">>}

\* Tag documents of one attribute whose name holds two colons.
NsAttrs == [name : {<<"a", ":", "b", ":", "c">>}, qv : AttrValues, sp : {FALSE}]

NsDocs == [attrs : [1..1 -> NsAttrs], trail : {0}, selfClose : BOOLEAN, wf : {TRUE}]

\* Tag documents of an attribute a and an attribute c of another name.
SeenDocs ==
  [attrs : {<<[name |-> <<"a">>, qv |-> [q |-> "\"", v |-> <<"'">>], sp |-> FALSE],
              [name |-> <<"c">>, qv |-> [q |-> "'", v |-> <<>>], sp |-> FALSE]>>},
   trail : {0}, selfClose : BOOLEAN, wf : {TRUE}]

\* Tag documents of one attribute followed by three or four bytes of
\* whitespace before the closing bracket.
TrailAttrs == [name : {<<"a">>}, qv : AttrValues, sp : {FALSE}]

TrailDocs == [attrs : [1..1 -> TrailAttrs], trail : {3, 4}, selfClose : BOOLEAN, wf : {TRUE}]

\* Start tags whose last attribute has a value that is not quoted, or whose
\* quote is not closed; a well-formed attribute may come before it.
UnquotedNames == {<<"a">>, <<"a", "b">>}

UnquotedValues == {<<"1">>, <<"1", "2">>, <<"'">>, <<"\"", "1">>, <<"'", "1", "\"">>}

UnquotedBuffers ==
  {((((<<"<", "t">> \o lead) \o <<" ">>) \o n) \o eq) \o (v \o close) :
     lead \in {<<>>, <<" ", "a", "=", "'", "'">>}, n \in UnquotedNames,
     eq \in {<<"=">>, <<" ", "=", " ">>}, v \in UnquotedValues,
     close \in {<<">">>, <<"/", ">">>}}

\* DOCTYPE declarations with and without an internal subset in brackets,
\* with and without the closing bracket, followed by nothing or by more bytes.
DoctypeSubsets == {<<>>, <<"[", "]">>, <<"[", "<", "b", ">", "]">>}

DoctypeBuffers ==
  {(((docTypePrefix \o <<" ", "a">>) \o subset) \o close) \o rest :
     subset \in DoctypeSubsets, close \in {<<>>, <<">">>},
     rest \in {<<>>, <<"a">>, <<"<", "b">>}}

\* CDATA sections, closed or not, whose bytes hold brackets and line ends,
\* at the start of the buffer or after a self-closing tag, followed by nothing
\* or by more bytes.
CdataPayloads == {<<>>, <<"\r">>, <<"\r", "\n", "a">>, <<"<", "b", ">">>, <<"]">>}

CdataBuffers ==
  {(((lead \o cdataPrefix) \o p) \o close) \o rest :
     lead \in {<<>>, <<"<", "a", "/", ">">>}, p \in CdataPayloads,
     close \in {<<>>, cdataSuffix, <<"]", ">">>}, rest \in {<<>>, <<"a">>, cdataSuffix}}

\* Processing instructions: a target, whitespace and an instruction, each of
\* which may be empty, followed by nothing or by more bytes.
ProcInstTargets == {<<>>, <<"a">>, <<"x", "m", "l">>}

ProcInstSpaces == {<<>>, <<" ">>, <<"\t", "\n">>}

ProcInstInsts == {<<>>, <<"b">>, <<"b", " ", "c">>, <<"?">>, <<"b", " ">>}

ProcInstBuffers ==
  {((((<<"<", "?">> \o tg) \o w) \o i) \o <<"?", ">">>) \o rest :
     tg \in ProcInstTargets, w \in ProcInstSpaces, i \in ProcInstInsts,
     rest \in {<<>>, <<"a">>}}

\* Two tokens: a start tag with or without an attribute, self-closing or not,
\* and then another start tag or character data.
TwoTagFirst ==
  {<<"<", "a", ">">>, <<"<", "a", " ", "b", "=", "'", "1", "'", ">">>,
   <<"<", "a", " ", "b", "=", "'", "1", "'", "/", ">">>}

TwoTagSecond ==
  {<<"<", "c", ">">>, <<"<", "c", " ", "d", "=", "\"", "2", "\"", ">">>, <<"c">>}

TwoTagBuffers == {f \o s : f \in TwoTagFirst, s \in TwoTagSecond}

\* End tags: a name and whitespace, or bytes that do not start a name.
EndTagNames == {<<"a">>, <<"a", "b">>, <<"a", "-", "1">>}

EndTagBuffers ==
  {((<<"<", "/">> \o n) \o w) \o <<">">> :
     n \in EndTagNames, w \in {<<>>, <<" ">>, <<" ", "\t">>}}
  \cup {(<<"<", "/">> \o x) \o <<">">> : x \in {<<>>, <<" ">>, <<"1">>, <<" ", "a">>}}

(***************************************************************************)
(* The state machine.                                                      *)
(*   ret       the outcome of the last call: the operation, the kind of    *)
(*             result, the token type, the error, the frame consumed; for  *)
(*             Next and Peek the cursor and pending name before the call   *)
(*             (cur0, last0) and those that the body of Next reached       *)
(*             (cur, last); for the attribute calls the argument and the   *)
(*             returned name and value                                     *)
(*   lastNext  the outcome of the last call of Next                        *)
(*   iter      the number of attributes NextAttribute has returned from    *)
(*             the StartToken that Next returned last; -1 when no such     *)
(*             token is current                                            *)
(*   doc       the document the buffer was rendered from                   *)
(*   callerBuf the bytes of the slice that the caller gave to NewParser    *)
(*   mustCopy  the mustCopy argument of NewParser                          *)
(*   consumed  the frames of the calls of Next that advanced the cursor,   *)
(*             in the order of the calls                                   *)
(***************************************************************************)
Ret(op, kind, tok, err, frame, cur0, last0, cur, last, arg, name, value) ==
  [op |-> op, kind |-> kind, tok |-> tok, err |-> err, frame |-> frame,
   cur0 |-> cur0, last0 |-> last0, cur |-> cur, last |-> last,
   arg |-> arg, name |-> name, value |-> value]

AttrRet(op, kind, err, arg, name, value) ==
  Ret(op, kind, "nil", err, NilSlice, 0, NilSlice, 0, NilSlice, arg, name, value)

\* NewParser(buf, mustCopy): the parser's buffer is the caller's slice or a
\* copy of it; at construction both hold the bytes b.
NewParser(b, copy, d) ==
  /\ buf = b
  /\ callerBuf = b
  /\ mustCopy = copy
  /\ currentPointer = 0
  /\ lastTagName = NilSlice
  /\ innerData = ZeroInnerData
  /\ ret = AttrRet("New", "nil", NoErr, <<>>, NilSlice, NilSlice)
  /\ lastNext = AttrRet("New", "nil", NoErr, <<>>, NilSlice, NilSlice)
  /\ iter = -1
  /\ doc = d
  /\ consumed = <<>>

InitRaw == \E b \in RawBuffers : NewParser(b, FALSE, RawDoc)

InitTag == \E d \in TagDocs : NewParser(RenderTag(d.attrs, d.trail, d.selfClose), FALSE, d)

InitNs == \E d \in NsDocs : NewParser(RenderTag(d.attrs, d.trail, d.selfClose), FALSE, d)

InitSeen == \E d \in SeenDocs : NewParser(RenderTag(d.attrs, d.trail, d.selfClose), FALSE, d)

InitTrail == \E d \in TrailDocs : NewParser(RenderTag(d.attrs, d.trail, d.selfClose), FALSE, d)

InitDoctype == \E b \in DoctypeBuffers : NewParser(b, FALSE, RawDoc)

InitCdata == \E b \in CdataBuffers : NewParser(b, FALSE, RawDoc)

InitProcInst == \E b \in ProcInstBuffers : NewParser(b, FALSE, RawDoc)

InitTwoTag == \E b \in TwoTagBuffers : NewParser(b, FALSE, RawDoc)

InitEndTag == \E b \in EndTagBuffers : NewParser(b, FALSE, RawDoc)

InitUnquoted == \E b \in UnquotedBuffers : NewParser(b, FALSE, RawDoc)

Init ==
  \/ InitRaw \/ InitTag \/ InitNs \/ InitSeen \/ InitTrail \/ InitUnquoted \/ InitDoctype
  \/ InitCdata \/ InitProcInst \/ InitTwoTag \/ InitEndTag

\* Mutation of advance: the cursor stops on the last byte of the frame.
advanceShort(cur, n) == cur + n - 1

\* Mutation of advance: the length is assigned instead of added.
advanceAssign(cur, n) == n

\* p.currentPointer += uint32(len(tokenBytes)).  currentPointer is a uint32;
\* the buffers of the model are far shorter than 2^32 bytes, so the addition
\* never wraps.
advance(cur, n) == cur + n

\* Mutation of endOfBuffer: the comparison is strict.
endOfBufferStrict(cur, n) == cur > n

\* if p.currentPointer >= uint32(len(p.buf))
endOfBuffer(cur, n) == cur >= n

\* Mutation of pendingCleared: the pending self-close stays after its
\* EndElement has been returned.
pendingKept(last) == last

\* p.lastTagName = ""
pendingCleared(last) == NilSlice

\* The body of Parser.Next from the state (cur, last, inner).
NextBody(cur, last, inner) ==
  IF Bytes(last) # <<>>
  THEN [kind |-> "Token", tok |-> "EndElement", err |-> NoErr, frame |-> NilSlice,
        cur |-> cur, last |-> pendingCleared(last),
        inner |-> sendSelfClosingEnd(inner, last)]
  ELSE IF endOfBuffer(cur, Len(buf))
  THEN [kind |-> "EOF", tok |-> "nil", err |-> NoErr, frame |-> NilSlice,
        cur |-> cur, last |-> last, inner |-> inner]
  ELSE LET Decoded(n, o) ==
             [kind |-> o.kind, tok |-> o.tok, err |-> o.err,
              frame |-> Slice(cur, cur + n),
              cur |-> advance(cur, n), last |-> o.last, inner |-> o.inner]
           Fetched(f) ==
             IF f.err # NoErr
             THEN [kind |-> "Error", tok |-> "nil", err |-> f.err, frame |-> NilSlice,
                   cur |-> cur, last |-> last, inner |-> inner]
             ELSE Decoded(f.n, decodeToken(Sub(buf, cur, cur + f.n), cur, inner, last))
       IN  Fetched(FetchNextToken(From(buf, cur)))

\* The name of a returned StartToken or EndElement.
TokenName(r) ==
  IF r.tok = "StartToken" THEN r.inner.startName
  ELSE IF r.tok = "EndElement" THEN r.inner.endName
  ELSE NilSlice

\* What the returned pointer shows: the fields of innerData of the token type.
TokenValue(tok, inner) ==
  CASE tok = "StartToken" -> <<inner.startName, inner.attrBuf>>
    [] tok = "EndElement" -> <<inner.endName>>
    [] tok = "CharData" -> <<inner.charData, inner.charOwned, inner.charBytes>>
    [] tok = "Comment" -> <<inner.comment>>
    [] tok = "Directive" -> <<inner.directive>>
    [] tok = "ProcInst" -> <<inner.target, inner.inst>>
    [] OTHER -> <<>>

ParserNext ==
  LET Returned(r) ==
        /\ currentPointer' = r.cur
        /\ lastTagName' = r.last
        /\ innerData' = r.inner
        /\ ret' = Ret("Next", r.kind, r.tok, r.err, r.frame, currentPointer, lastTagName,
                      r.cur, r.last, <<>>, TokenName(r), NilSlice)
        /\ lastNext' = ret'
        /\ iter' = IF r.kind = "Token" /\ r.tok = "StartToken" THEN 0 ELSE -1
        /\ consumed' = IF r.cur # currentPointer THEN Append(consumed, r.frame)
                        ELSE consumed
        /\ UNCHANGED <<buf, doc, callerBuf, mustCopy>>
  IN  Returned(NextBody(currentPointer, lastTagName, innerData))

\* Mutation of restored: Peek keeps the state that Next reached.
restoredNot(saved, reached) == reached

\* The deferred function of Peek: the state that Peek leaves, given the
\* state it saved and the state that Next reached.
restored(saved, reached) == saved

\* Mutation of peeked: Peek puts back the token objects as well.
peekedRestored(before, decoded) == before

\* The token objects of the parser after Peek: the deferred function does not
\* put them back, so they are what the Next inside Peek decoded.
peeked(before, decoded) == decoded

Peek ==
  LET Deferred(lastPos, lastName, r) ==
        /\ currentPointer' = restored(lastPos, r.cur)
        /\ lastTagName' = restored(lastName, r.last)
        /\ innerData' = peeked(innerData, r.inner)
        /\ ret' = Ret("Peek", r.kind, r.tok, r.err, r.frame, currentPointer, lastTagName,
                      r.cur, r.last, <<>>, TokenName(r), NilSlice)
        /\ iter' = IF r.inner.startName = innerData.startName
                      /\ r.inner.attrBuf = innerData.attrBuf THEN iter ELSE -1
        /\ UNCHANGED <<buf, doc, lastNext, callerBuf, mustCopy, consumed>>
  IN  Deferred(currentPointer, lastTagName,
               NextBody(currentPointer, lastTagName, innerData))

\* The caller holds a *StartToken once one has been decoded.
HoldsStartToken == innerData.startName # NilSlice

\* Mutation of nextAttribute: attrBuf moves by one byte when the attribute
\* cannot be decoded.
nextAttributeSkipsOnError(ab) ==
  IF Len(ab) <= MinAttrLen
  THEN [kind |-> "EOF", err |-> NoErr, name |-> NilSlice, value |-> NilSlice, skip |-> 0]
  ELSE LET Decoded(d) ==
             [kind |-> IF d.panic THEN "Panic"
                       ELSE IF d.err # NoErr THEN "Error" ELSE "Attr",
              err |-> d.err, name |-> d.name, value |-> d.value,
              skip |-> IF d.err # NoErr THEN 1
                       ELSE IF d.skip # -1 /\ ~d.panic THEN d.skip ELSE 0]
       IN  Decoded(decodeTagAttribute(ab))

\* StartToken.NextAttribute on the bytes ab of attrBuf: the kind of result,
\* the name and the value as offsets into ab, and how far attrBuf moves.
nextAttribute(ab) ==
  IF Len(ab) <= MinAttrLen
  THEN [kind |-> "EOF", err |-> NoErr, name |-> NilSlice, value |-> NilSlice, skip |-> 0]
  ELSE LET Decoded(d) ==
             [kind |-> IF d.panic THEN "Panic"
                       ELSE IF d.err # NoErr THEN "Error" ELSE "Attr",
              err |-> d.err, name |-> d.name, value |-> d.value,
              skip |-> IF d.skip # -1 /\ ~d.panic THEN d.skip ELSE 0]
       IN  Decoded(decodeTagAttribute(ab))

NextAttribute ==
  /\ HoldsStartToken
  /\ LET Returned(ab, a) ==
           /\ innerData' = IF a.skip > 0
                           THEN [innerData EXCEPT !.attrBuf = Slice(ab.lo + a.skip, ab.hi)]
                           ELSE innerData
           /\ ret' = AttrRet("NextAttribute", a.kind, a.err, <<>>,
                             Shift(a.name, ab.lo), Shift(a.value, ab.lo))
           /\ iter' = IF iter >= 0 /\ a.kind = "Attr" /\ a.skip > 0 THEN iter + 1 ELSE iter
     IN  Returned(innerData.attrBuf, nextAttribute(Bytes(innerData.attrBuf)))
  /\ UNCHANGED <<buf, currentPointer, lastTagName, lastNext, doc, callerBuf, mustCopy,
                 consumed>>

\* Mutation of GetAttribute: the search begins after the tag name, whatever
\* NextAttribute has returned.
GetAttributeFromStart(name) ==
  /\ HoldsStartToken
  /\ LET Returned(ab, g) ==
           ret' = AttrRet("GetAttribute", g.kind, g.err, name, NilSlice,
                          Shift(g.value, ab.lo))
         Search(ab) == Returned(ab, GetAttributeLoop(Bytes(ab), name, 0, 0))
     IN  Search(IF innerData.attrBuf = NilSlice THEN NilSlice
                ELSE Slice(innerData.startName.hi, innerData.attrBuf.hi))
  /\ UNCHANGED <<buf, currentPointer, lastTagName, innerData, lastNext, iter, doc,
                 callerBuf, mustCopy, consumed>>

GetAttribute(name) ==
  /\ HoldsStartToken
  /\ LET Returned(ab, g) ==
           ret' = AttrRet("GetAttribute", g.kind, g.err, name, NilSlice,
                          Shift(g.value, ab.lo))
     IN  Returned(innerData.attrBuf, GetAttributeLoop(Bytes(innerData.attrBuf), name, 0, 0))
  /\ UNCHANGED <<buf, currentPointer, lastTagName, innerData, lastNext, iter, doc,
                 callerBuf, mustCopy, consumed>>

Lookup == \E name \in LookupNames : GetAttribute(name)

Next == ParserNext \/ Peek \/ NextAttribute \/ Lookup

Spec == Init /\ [][Next]_vars

(***************************************************************************)
(* The parser and a caller that writes into the slice it gave to           *)
(* NewParser.                                                              *)
(***************************************************************************)
OwnBuffers == {<<"a", "b">>, <<"<", "a", ">", "b">>, <<"<", "a", "/", ">">>}

\* The bytes the caller writes.
WriteBytes == {"x", "<"}

InitOwn == \E b \in OwnBuffers, copy \in BOOLEAN : NewParser(b, copy, RawDoc)

\* Mutation of parserBytes: the parser's buffer is the caller's slice whatever
\* mustCopy is.
parserBytesAliased(own, written, copy) == written

\* The bytes of the parser's buffer after a write of the caller: those of the
\* copy that NewParser made, or those of the caller's slice.
parserBytes(own, written, copy) == IF copy THEN own ELSE written

CallerWrite ==
  \E i \in 1..Len(callerBuf), b \in WriteBytes :
    /\ callerBuf[i] # b
    /\ callerBuf' = [callerBuf EXCEPT ![i] = b]
    /\ buf' = parserBytes(buf, callerBuf', mustCopy)
    /\ ret' = AttrRet("Write", "nil", NoErr, <<>>, NilSlice, NilSlice)
    /\ UNCHANGED <<currentPointer, lastTagName, innerData, lastNext, iter, doc, mustCopy,
                   consumed>>

NextOwn == Next \/ CallerWrite

SpecOwn == InitOwn /\ [][NextOwn]_vars

TypeOK ==
  /\ currentPointer \in 0..Len(buf)
  /\ iter \in -1..Len(buf)
  /\ ret.kind \in {"nil", "Token", "EOF", "Error", "Panic", "Attr", "Value",
                   "NoSuchAttribute", "Diverges"}

(***************************************************************************)
(* Properties of the pull parser.                                          *)
(***************************************************************************)
\* Next returned a StartToken with a non-empty name decoded from a frame
\* whose byte before the closing bracket is a slash.
SelfClosingStart(r) ==
  /\ r.op = "Next" /\ r.kind = "Token" /\ r.tok = "StartToken"
  /\ At(buf, r.frame.hi - 2) = "/"
  /\ Bytes(r.name) # <<>>

\* No self-close is pending and the cursor is at the end of the buffer.
AtEnd == Bytes(lastTagName) = <<>> /\ currentPointer = Len(buf)

\* C1: when Next has returned a StartToken decoded from a frame <NAME/> or
\* <NAME .../>, the following call of Next returns an EndElement of the same
\* name, leaves the cursor unchanged and clears the pending self-close.
SelfClosePairing ==
  [][(SelfClosingStart(lastNext) /\ ret'.op = "Next")
       => /\ ret'.kind = "Token" /\ ret'.tok = "EndElement"
          /\ Bytes(ret'.name) = Bytes(lastNext.name)
          /\ Bytes(innerData'.endName) = Bytes(lastNext.name)
          /\ currentPointer' = currentPointer
          /\ Bytes(lastTagName') = <<>>]_vars

\* The EndElement of a self-closing tag with attributes has been returned.
SelfClosePairingWitness ==
  /\ ret.op = "Next" /\ ret.kind = "Token" /\ ret.tok = "EndElement"
  /\ ret.frame = NilSlice
  /\ doc.wf /\ doc.selfClose /\ Len(doc.attrs) > 0
  /\ Bytes(ret.name) = <<"t">>

\* The result of a call of Next or Peek: its kind, token type, error and the
\* token it points to.
Result(r, inner) == <<r.kind, r.tok, r.err, TokenValue(r.tok, inner)>>

\* C2: Peek leaves the cursor and the pending self-close unchanged; a Peek or
\* a Next that directly follows a Peek returns the result of that Peek, and
\* the Next reaches the state that the Next inside the Peek had reached.
PeekIdempotence ==
  [][/\ ret'.op = "Peek"
          => currentPointer' = currentPointer /\ lastTagName' = lastTagName
     /\ (ret.op = "Peek" /\ ret'.op \in {"Peek", "Next"})
          => Result(ret', innerData') = Result(ret, innerData)
     /\ (ret.op = "Peek" /\ ret'.op = "Next")
          => currentPointer' = ret.cur /\ lastTagName' = ret.last]_vars

\* Peek has returned the EndElement of a self-closing tag and the self-close
\* is still pending.
PeekIdempotenceWitness ==
  /\ ret.op = "Peek" /\ ret.kind = "Token" /\ ret.tok = "EndElement"
  /\ Bytes(lastTagName) # <<>>
  /\ ret.last = NilSlice
  /\ currentPointer = ret.cur0

\* C3: a call of Next that returns an error has advanced the cursor by at
\* least one byte, or the error is UnexpectedEOF and the cursor is at the end
\* of the buffer.
ProgressAfterError ==
  (ret.op = "Next" /\ ret.kind = "Error")
    => \/ currentPointer >= ret.cur0 + 1
       \/ ret.err = ErrUnexpectedEOF /\ currentPointer = Len(buf)

\* C4: a successful Next that synthesizes the EndElement of a self-closing tag
\* leaves the cursor unchanged; every other successful Next advances it by
\* the length of the frame, which is at least one byte.
MonotoneCursor ==
  (ret.op = "Next" /\ ret.kind = "Token")
    => IF Bytes(ret.last0) # <<>>
       THEN currentPointer = ret.cur0
       ELSE /\ ret.frame.lo = ret.cur0
            /\ SLen(ret.frame) >= 1
            /\ currentPointer = ret.cur0 + SLen(ret.frame)

\* Next has returned a token that is not the first of the buffer.
MonotoneCursorWitness ==
  /\ ret.op = "Next" /\ ret.kind = "Token"
  /\ Bytes(ret.last0) = <<>>
  /\ ret.cur0 > 0
  /\ currentPointer > ret.cur0 + 1

\* C5: the cursor stays within the buffer; Next and Peek return end-of-input
\* exactly when no self-close is pending and the cursor is at the end of the
\* buffer; from then on the state does not change and they return
\* end-of-input again.
CursorBoundsAndEOF ==
  [][/\ currentPointer' \in 0..Len(buf)
     /\ ret'.op \in {"Next", "Peek"} => (ret'.kind = "EOF" <=> AtEnd)
     /\ AtEnd => /\ AtEnd'
                 /\ currentPointer' = currentPointer
                 /\ lastTagName' = lastTagName]_vars

\* Peek returns end-of-input after Next has returned it on a non-empty buffer.
CursorBoundsAndEOFWitness ==
  /\ ret.op = "Peek" /\ ret.kind = "EOF"
  /\ lastNext.kind = "EOF"
  /\ Len(buf) > 0
  /\ currentPointer = Len(buf)

(***************************************************************************)
(* Properties of the token payloads.                                       *)
(***************************************************************************)
\* Line ends normalized: "\r\n" and a lone "\r" become "\n".
RECURSIVE NormalizedEOL(_)
NormalizedEOL(s) ==
  IF s = <<>> THEN <<>>
  ELSE IF Head(s) # "\r" THEN <<Head(s)>> \o NormalizedEOL(Tail(s))
  ELSE IF Len(s) >= 2 /\ s[2] = "\n" THEN <<"\n">> \o NormalizedEOL(Tail(Tail(s)))
  ELSE <<"\n">> \o NormalizedEOL(Tail(s))

\* The bytes of the CharData that the parser holds.
CharDataBytes(inner) == IF inner.charOwned THEN inner.charBytes ELSE Bytes(inner.charData)

\* C6: for every frame of character data consumed by Next, wherever its "\r"
\* bytes are, Next returns CharData equal to the frame with every "\r\n" and
\* every remaining "\r" replaced by "\n"; a frame without "\r" is returned
\* unchanged.
CharDataNormalization ==
  (ret.op = "Next" /\ ret.frame # NilSlice /\ At(buf, ret.frame.lo) # "<")
    => /\ ret.kind = "Token" /\ ret.tok = "CharData"
       /\ CharDataBytes(innerData) = NormalizedEOL(Bytes(ret.frame))
       /\ \A i \in 1..Len(CharDataBytes(innerData)) : CharDataBytes(innerData)[i] # "\r"

\* The payload slices of a token.
Payloads(tok, inner) ==
  CASE tok = "StartToken" -> {inner.startName, inner.attrBuf}
    [] tok = "EndElement" -> {inner.endName}
    [] tok = "CharData" -> {inner.charData}
    [] tok = "Comment" -> {inner.comment}
    [] tok = "Directive" -> {inner.directive}
    [] tok = "ProcInst" -> {inner.target, inner.inst}
    [] OTHER -> {}

\* A payload that holds no bytes of the buffer: nil, or the empty slice.
Absent(p) == p \in {NilSlice, emptyBytes}

\* The range of p lies in [lo, hi].
Within(p, lo, hi) == lo <= p.lo /\ p.lo <= p.hi /\ p.hi <= hi

\* Next returned a token whose character data, if any, aliases the buffer.
ReturnedAliased(r, inner) ==
  r.op = "Next" /\ r.kind = "Token" /\ ~(r.tok = "CharData" /\ inner.charOwned)

\* C7 as stated: every payload of a token returned by Next without line-end
\* normalization is a range of the buffer inside the frame just consumed, that
\* is between the cursor before the call and the cursor after it.
SliceAliasing ==
  ReturnedAliased(ret, innerData)
    => /\ currentPointer <= Len(buf)
       /\ \A p \in Payloads(ret.tok, innerData) :
            Absent(p) \/ Within(p, ret.cur0, currentPointer)

\* C7: every payload of a token that Next decodes from a frame is a range of
\* the buffer inside that frame; the name of the EndElement that Next returns
\* for a pending self-close, consuming no frame, is the name of the StartToken
\* that the previous Next returned, inside the frame of that start tag, which
\* ends at the cursor.
SliceAliasingOfFrames ==
  [][ReturnedAliased(ret', innerData')
       => /\ currentPointer' <= Len(buf)
          /\ IF ret'.frame = NilSlice
             THEN /\ ret'.tok = "EndElement"
                  /\ currentPointer' = currentPointer
                  /\ lastNext.tok = "StartToken"
                  /\ innerData'.endName = lastNext.name
                  /\ Within(innerData'.endName, lastNext.frame.lo, lastNext.frame.hi)
                  /\ lastNext.frame.hi = currentPointer
             ELSE /\ ret'.frame = Slice(ret'.cur0, currentPointer')
                  /\ \A p \in Payloads(ret'.tok, innerData') :
                       Absent(p) \/ Within(p, ret'.cur0, currentPointer')]_vars

\* Next has returned the EndElement of a self-closing tag of a raw buffer: its
\* name lies before the cursor that the call started from.
SliceAliasingOfFramesWitness ==
  /\ ~doc.wf
  /\ ret.op = "Next" /\ ret.kind = "Token" /\ ret.tok = "EndElement"
  /\ ret.frame = NilSlice
  /\ innerData.endName.lo >= 0
  /\ innerData.endName.hi < ret.cur0

(***************************************************************************)
(* Properties of the attributes of a tag document.                         *)
(***************************************************************************)
\* C8: on a start tag of well-formed attributes returned by Next, the i-th
\* call of NextAttribute returns the name and the unquoted value of the i-th
\* attribute of the tag, duplicates included, and the first call that returns
\* an error comes after the last attribute.
AttributeIterationOrder ==
  (doc.wf /\ ret.op = "NextAttribute" /\ iter >= 0)
    => IF ret.kind = "Attr"
       THEN /\ iter \in 1..Len(doc.attrs)
            /\ Bytes(ret.name) = doc.attrs[iter].name
            /\ Bytes(ret.value) = doc.attrs[iter].qv.v
       ELSE ret.kind \in {"EOF", "Error"} /\ iter = Len(doc.attrs)

\* The iteration over two attributes of the same name has reached its end.
AttributeIterationOrderWitness ==
  /\ doc.wf /\ ret.op = "NextAttribute" /\ ret.kind = "EOF"
  /\ iter = 2 /\ Len(doc.attrs) = 2
  /\ doc.attrs[1].name = doc.attrs[2].name
  /\ doc.attrs[1].qv # doc.attrs[2].qv
  /\ doc.attrs[2].sp

\* The name after the namespace prefix.
LocalName(name) ==
  IF \E i \in 1..Len(name) : name[i] = ":"
  THEN SubSeq(name, 1 + (CHOOSE i \in 1..Len(name) :
                           name[i] = ":" /\ \A j \in 1..(i - 1) : name[j] # ":"),
              Len(name))
  ELSE name

\* C9: on a start tag of well-formed attributes returned by Next, GetAttribute
\* of a non-empty name that matches no attribute of the tag returns
\* NoSuchAttributeError.
GetAttributeNotFound ==
  (/\ doc.wf /\ ret.op = "GetAttribute" /\ iter >= 0
   /\ ret.arg # <<>>
   /\ \A i \in 1..Len(doc.attrs) :
        doc.attrs[i].name # ret.arg /\ LocalName(doc.attrs[i].name) # ret.arg)
    => ret.kind = "NoSuchAttribute"

\* The pairs that calls of NextAttribute return before the first error, from
\* the bytes ab of attrBuf.
RECURSIVE IterateAttributes(_)
IterateAttributes(ab) ==
  LET Returned(a) ==
        IF a.kind # "Attr" \/ a.skip <= 0 THEN <<>>
        ELSE <<[name |-> Sub(ab, a.name.lo, a.name.hi),
                value |-> Sub(ab, a.value.lo, a.value.hi)]>>
             \o IterateAttributes(From(ab, a.skip))
  IN  Returned(nextAttribute(ab))

\* The first pair of pairs whose name satisfies Named.
FirstPair(pairs, Named(_)) ==
  pairs[CHOOSE i \in 1..Len(pairs) :
          Named(pairs[i].name) /\ \A j \in 1..(i - 1) : ~Named(pairs[j].name)]

\* GetAttribute has been called on a freshly decoded start tag of well-formed
\* attributes.
GetAttributeOnFresh == doc.wf /\ ret.op = "GetAttribute" /\ iter = 0

\* C10 as stated: GetAttribute of a name that the iteration yields returns
\* the value of the first pair of that name.
AttributeRoundTrip ==
  LET Holds(pairs) ==
        (\E i \in 1..Len(pairs) : pairs[i].name = ret.arg)
          => /\ ret.kind = "Value"
             /\ Bytes(ret.value) = FirstPair(pairs, LAMBDA n : n = ret.arg).value
  IN  GetAttributeOnFresh => Holds(IterateAttributes(Bytes(innerData.attrBuf)))

\* C10: GetAttribute of a name without a colon that the iteration yields
\* returns the value of the first pair whose name after its namespace prefix
\* is that name; GetAttribute of a name with a colon returns no value.
AttributeRoundTripOfLocalNames ==
  LET Holds(pairs) ==
        /\ (/\ \E i \in 1..Len(pairs) : pairs[i].name = ret.arg
            /\ \A k \in 1..Len(ret.arg) : ret.arg[k] # ":")
             => /\ ret.kind = "Value"
                /\ Bytes(ret.value)
                     = FirstPair(pairs, LAMBDA n : LocalName(n) = ret.arg).value
        /\ (\E k \in 1..Len(ret.arg) : ret.arg[k] = ":") => ret.kind # "Value"
  IN  GetAttributeOnFresh => Holds(IterateAttributes(Bytes(innerData.attrBuf)))

\* GetAttribute("a") has returned the value of a prefixed attribute that
\* comes before the attribute named a and has another value.
AttributeRoundTripOfLocalNamesWitness ==
  /\ GetAttributeOnFresh
  /\ ret.arg = <<"a">> /\ ret.kind = "Value"
  /\ Len(doc.attrs) = 2
  /\ doc.attrs[1].name = <<"n", ":", "a">> /\ doc.attrs[2].name = <<"a">>
  /\ doc.attrs[1].qv.v # doc.attrs[2].qv.v
  /\ Bytes(ret.value) = doc.attrs[1].qv.v

\* The name after the last colon.
LastLocalName(name) ==
  IF \E i \in 1..Len(name) : name[i] = ":"
  THEN SubSeq(name, 1 + (CHOOSE i \in 1..Len(name) :
                           name[i] = ":" /\ \A j \in (i + 1)..Len(name) : name[j] # ":"),
              Len(name))
  ELSE name

\* C11: GetAttribute compares the requested name with the bytes after the last
\* colon of each attribute name, or with the whole name when it holds no
\* colon, and returns the value of the first attribute that matches.
GetAttributeLastColon ==
  LET Matches(i) == LastLocalName(doc.attrs[i].name) = ret.arg
  IN  (/\ GetAttributeOnFresh
       /\ \E i \in 1..Len(doc.attrs) : Matches(i))
        => /\ ret.kind = "Value"
           /\ Bytes(ret.value)
                = doc.attrs[CHOOSE i \in 1..Len(doc.attrs) :
                              Matches(i) /\ \A j \in 1..(i - 1) : ~Matches(j)].qv.v

\* C12: NextAttribute and GetAttribute leave the buffer, the cursor and the
\* pending self-close unchanged and change no field of the token but attrBuf;
\* NextAttribute that returns a pair moves attrBuf to just past the closing
\* quote of the returned value; NextAttribute that returns an error leaves
\* attrBuf unchanged and returns the same error when called again;
\* GetAttribute leaves attrBuf unchanged.
AttributeOperationsFrame ==
  [][/\ ret'.op \in {"NextAttribute", "GetAttribute"}
          => /\ buf' = buf
             /\ currentPointer' = currentPointer
             /\ lastTagName' = lastTagName
             /\ [innerData' EXCEPT !.attrBuf = innerData.attrBuf] = innerData
     /\ (ret'.op = "NextAttribute" /\ ret'.kind = "Attr")
          => /\ At(buf, ret'.value.hi) \in {"'", "\""}
             /\ innerData'.attrBuf = Slice(ret'.value.hi + 1, innerData.attrBuf.hi)
     /\ (ret'.op = "NextAttribute" /\ ret'.kind \in {"EOF", "Error"})
          => innerData' = innerData
     /\ (ret.op = "NextAttribute" /\ ret.kind = "Error" /\ ret'.op = "NextAttribute")
          => ret' = ret
     /\ ret'.op = "GetAttribute" => innerData' = innerData /\ iter' = iter]_vars

\* NextAttribute has returned an attribute of a tag and then an error for the
\* next one, with attrBuf just past the closing quote of the returned value
\* and the cursor where Next left it.
AttributeOperationsFrameWitness ==
  /\ ret.op = "NextAttribute" /\ ret.kind = "Error"
  /\ innerData.attrBuf.lo > innerData.startName.hi + 1
  /\ At(buf, innerData.attrBuf.lo - 1) = "'"
  /\ currentPointer = lastNext.cur
  /\ lastNext.tok = "StartToken"

\* The index from i on of the first byte of s that is not whitespace, or
\* Len(s) + 1 (indices from 1).
SkipSpaces(s, i) ==
  CHOOSE j \in i..(Len(s) + 1) :
    /\ (j = Len(s) + 1 \/ ~IsHTMLSpaceChar(s[j]))
    /\ \A k \in i..(j - 1) : IsHTMLSpaceChar(s[k])

\* The index from i on of the first byte of s that is not a name byte, or
\* Len(s) + 1.
NameEnd(s, i) ==
  CHOOSE j \in i..(Len(s) + 1) :
    /\ (j = Len(s) + 1 \/ ~isNameChar(s[j]))
    /\ \A k \in i..(j - 1) : isNameChar(s[k])

\* The attribute bytes s begin with name=V where V does not begin with a
\* quote, or begins with a quote that s does not close.
UnquotedNext(s) ==
  LET Value(p) ==
        /\ p <= Len(s) /\ s[p] # ">" /\ ~(s[p] = "/" /\ p = Len(s) - 1)
        /\ \/ s[p] \notin {"'", "\""}
           \/ \A k \in (p + 1)..Len(s) : s[k] # s[p]
      Equal(e) == e <= Len(s) /\ s[e] = "=" /\ Value(SkipSpaces(s, e + 1))
      Name(i, j) == i <= Len(s) /\ isNameStartChar(s[i]) /\ Equal(SkipSpaces(s, j))
      Start(i) == i <= Len(s) /\ Name(i, NameEnd(s, i))
  IN  Start(SkipSpaces(s, 1))

\* C15: NextAttribute on attribute bytes that begin with an attribute whose
\* value is not quoted, or whose quote is not closed inside the tag, returns
\* an error: neither a pair nor the end of the attributes.
UnquotedValueReported ==
  [][(/\ ret'.op = "NextAttribute"
      /\ lastNext.tok = "StartToken" /\ innerData.startName = lastNext.name
      /\ UnquotedNext(Bytes(innerData.attrBuf)))
       => ret'.kind = "Error"]_vars

\* In the start-tag frame f the first byte after the tag name that is not
\* whitespace is neither the closing bracket nor a slash.
AttributesFollowName(f) ==
  LET Follows(p) == p <= Len(f) /\ f[p] \notin {">", "/"}
  IN  Follows(SkipSpaces(f, IF isNameStartChar(f[2]) THEN NameEnd(f, 3) ELSE 2))

\* C13: HasAttributes of a StartToken that Next returns is true exactly when
\* the first byte after the tag name that is not whitespace is neither '>'
\* nor '/', and NextAttribute does not change it.
HasAttributesStable ==
  [][/\ (ret'.op = "Next" /\ ret'.kind = "Token" /\ ret'.tok = "StartToken")
          => (HasAttributes(innerData') <=> AttributesFollowName(Bytes(ret'.frame)))
     /\ ret'.op = "NextAttribute"
          => (HasAttributes(innerData') <=> HasAttributes(innerData))]_vars

\* The iteration over the attributes of a tag has returned attributes and
\* then their end, and HasAttributes is true.
HasAttributesStableWitness ==
  /\ ret.op = "NextAttribute" /\ ret.kind = "EOF"
  /\ doc.wf /\ iter >= 1 /\ iter = Len(doc.attrs)
  /\ HasAttributes(innerData)

\* C14: Next returns an error for a frame < X ... > whose byte X after the
\* opening bracket is not '/', '!' or '?' and cannot start a name.
InvalidNameStartReported ==
  (/\ ret.op = "Next" /\ ret.frame # NilSlice /\ SLen(ret.frame) >= 3
   /\ At(buf, ret.frame.lo) = "<" /\ At(buf, ret.frame.hi - 1) = ">"
   /\ At(buf, ret.frame.lo + 1) \notin {"/", "!", "?"}
   /\ ~isNameStartChar(At(buf, ret.frame.lo + 1)))
    => ret.kind = "Error"

\* C16: when the bytes at the cursor begin a start tag, an end tag, a
\* processing instruction or a DOCTYPE declaration and the rest of the buffer
\* holds no closing bracket, Next returns an error.
MissingBracketReported ==
  LET Unclosed(rest) ==
        /\ rest # <<>> /\ At(rest, 0) = "<"
        /\ IndexByte(rest, ">") = -1
        /\ (~HasPrefix(rest, <<"<", "!">>) \/ HasPrefix(rest, docTypePrefix))
  IN  (ret.op = "Next" /\ Bytes(ret.last0) = <<>> /\ Unclosed(From(buf, ret.cur0)))
        => ret.kind = "Error"

\* The index in rest of the bracket that closes the DOCTYPE declaration at
\* its start: the first '>' when no '[' comes before it, otherwise the first
\* '>' after the first ']' that follows the '['; -1 when there is none.
DoctypeEnd(rest) ==
  LET After(from) ==
        IF IndexByte(From(rest, from), ">") = -1 THEN -1
        ELSE from + IndexByte(From(rest, from), ">")
      Subset(ob) ==
        IF IndexByte(From(rest, ob), "]") = -1 THEN -1
        ELSE After(ob + IndexByte(From(rest, ob), "]"))
      Closed(gt, ob) ==
        IF gt = -1 THEN -1
        ELSE IF ob = -1 \/ ob > gt THEN gt
        ELSE Subset(ob)
  IN  Closed(IndexByte(rest, ">"), IndexByte(rest, "["))

\* C20: when the bytes at the cursor begin with <!DOCTYPE and the declaration
\* is closed, Next consumes it through its closing bracket, returns a
\* Directive of the bytes between "<!" and that bracket, and leaves the
\* cursor just past the bracket.
DoctypeFraming ==
  LET Framed(end) ==
        end # -1
          => /\ ret.kind = "Token" /\ ret.tok = "Directive"
             /\ ret.frame = Slice(ret.cur0, ret.cur0 + end + 1)
             /\ Bytes(innerData.directive) = Sub(buf, ret.cur0 + 2, ret.cur0 + end)
             /\ currentPointer = ret.cur0 + end + 1
  IN  (/\ ret.op = "Next" /\ Bytes(ret.last0) = <<>>
       /\ HasPrefix(From(buf, ret.cur0), docTypePrefix))
        => Framed(DoctypeEnd(From(buf, ret.cur0)))

\* C18: when the bytes at the cursor begin with "<!--", Next returns an error
\* if "-->" does not follow or if the frame is "<!--->"; otherwise it
\* consumes through the first "-->" and returns a Comment of the bytes between
\* the prefix and that "-->".
CommentTokens ==
  LET Framed(rest, idx) ==
        IF idx = -1 \/ idx = 3 THEN ret.kind = "Error"
        ELSE /\ ret.kind = "Token" /\ ret.tok = "Comment"
             /\ ret.frame = Slice(ret.cur0, ret.cur0 + idx + 3)
             /\ Bytes(innerData.comment) = IF idx >= 4 THEN Sub(rest, 4, idx) ELSE <<>>
  IN  (/\ ret.op = "Next" /\ Bytes(ret.last0) = <<>>
       /\ HasPrefix(From(buf, ret.cur0), commentPrefix))
        => Framed(From(buf, ret.cur0), Index(From(buf, ret.cur0), commentSuffix))

\* C19: Next on a frame </ N W > of a name N and whitespace W returns an
\* EndElement named N; on a frame whose byte after "</" does not start a name
\* it returns ErrInvalidClosingElement and no token.
EndTagDecoding ==
  LET Named(f, e) ==
        SkipSpaces(f, e) = Len(f)
          => /\ ret.kind = "Token" /\ ret.tok = "EndElement"
             /\ Bytes(innerData.endName) = SubSeq(f, 3, e - 1)
      Decoded(f) ==
        IF isNameStartChar(f[3]) THEN Named(f, NameEnd(f, 4))
        ELSE ret.kind = "Error" /\ ret.err = ErrInvalidClosingElement /\ ret.tok = "nil"
  IN  (/\ ret.op = "Next" /\ ret.frame # NilSlice /\ SLen(ret.frame) >= 3
       /\ HasPrefix(Bytes(ret.frame), <<"<", "/">>)
       /\ At(buf, ret.frame.hi - 1) = ">")
        => Decoded(Bytes(ret.frame))

\* Next has returned the EndElement of an end tag whose name of more than one
\* byte is followed by whitespace.
EndTagDecodingWitness ==
  /\ ret.op = "Next" /\ ret.kind = "Token" /\ ret.tok = "EndElement"
  /\ ret.frame # NilSlice
  /\ SLen(innerData.endName) >= 2
  /\ IsHTMLSpaceChar(At(buf, ret.frame.hi - 2))

(***************************************************************************)
(* Properties of the parser's buffer.                                      *)
(***************************************************************************)
\* C17: the buffer of a parser built with mustCopy never changes, whatever
\* the caller writes into its slice; the buffer of a parser built without it
\* holds the bytes of the caller's slice, and the character data that Next
\* returns are the bytes that the caller's slice holds in the frame.
BufferOwnership ==
  [][/\ mustCopy => buf' = buf
     /\ ~mustCopy => buf' = callerBuf'
     /\ (/\ ~mustCopy /\ ret'.op = "Next" /\ ret'.kind = "Token"
         /\ ret'.tok = "CharData" /\ ~innerData'.charOwned)
          => Bytes(innerData'.charData)
               = Sub(callerBuf', ret'.frame.lo, ret'.frame.hi)]_vars

\* The caller has overwritten bytes of its slice and Next has then returned
\* character data that hold the bytes as they were at construction.
BufferOwnershipWitness ==
  /\ mustCopy
  /\ ret.op = "Next" /\ ret.kind = "Token" /\ ret.tok = "CharData"
  /\ Bytes(innerData.charData) = <<"a", "b">>
  /\ callerBuf = <<"x", "x">>

(***************************************************************************)
(* Properties of the end of the attributes.                                *)
(***************************************************************************)
\* C21: on a start tag of well-formed attributes returned by Next, a call of
\* NextAttribute that does not return an attribute returns the end of the
\* attributes, whatever whitespace stands between the last closing quote and
\* the closing bracket.
EndOfAttributes ==
  (doc.wf /\ ret.op = "NextAttribute" /\ iter >= 0 /\ ret.kind # "Attr")
    => ret.kind = "EOF"

(***************************************************************************)
(* Properties of the other tokens.                                         *)
(***************************************************************************)
\* What C22 says of a call of Next on the bytes rest at the cursor, the first
\* "]]>" of which is at idx.
CdataFramed(rest, idx) ==
  IF idx = -1 THEN ret.kind = "Error"
  ELSE /\ ret.kind = "Token" /\ ret.tok = "CharData"
       /\ ret.frame = Slice(ret.cur0, ret.cur0 + idx + cdataSufLen)
       /\ currentPointer = ret.cur0 + idx + cdataSufLen
       /\ CharDataBytes(innerData) = Sub(rest, cdataPrefLen, idx)

\* C22 as stated: when the bytes at the cursor begin with "<![CDATA[", Next
\* returns an error if "]]>" does not follow; otherwise it consumes through
\* the first "]]>" and returns character data that are the bytes between the
\* prefix and that "]]>", unchanged.
CdataTokensAtCursor ==
  (ret.op = "Next" /\ HasPrefix(From(buf, ret.cur0), cdataPrefix))
    => CdataFramed(From(buf, ret.cur0), Index(From(buf, ret.cur0), cdataSuffix))

\* C22: when no self-close is pending and the bytes at the cursor begin with
\* "<![CDATA[", Next returns an error if "]]>" does not follow; otherwise it
\* consumes through the first "]]>" and returns character data that are the
\* bytes between the prefix and that "]]>", unchanged.
CdataTokens ==
  (/\ ret.op = "Next" /\ Bytes(ret.last0) = <<>>
   /\ HasPrefix(From(buf, ret.cur0), cdataPrefix))
    => CdataFramed(From(buf, ret.cur0), Index(From(buf, ret.cur0), cdataSuffix))

\* Next has returned a CDATA section that holds a carriage return and is
\* followed by another "]]>".
CdataTokensWitness ==
  /\ ret.op = "Next" /\ ret.kind = "Token" /\ ret.tok = "CharData"
  /\ HasPrefix(Bytes(ret.frame), cdataPrefix)
  /\ \E i \in 1..Len(CharDataBytes(innerData)) : CharDataBytes(innerData)[i] = "\r"
  /\ currentPointer < Len(buf)

\* The target and the instruction of the bytes between "<?" and "?>": the
\* bytes before the first whitespace and the bytes after the run of
\* whitespace that begins there; the whole and nothing when there is no
\* whitespace.
TargetAndInst(body) ==
  IF \A i \in 1..Len(body) : ~IsHTMLSpaceChar(body[i]) THEN <<body, <<>>>>
  ELSE LET Cut(k) == <<SubSeq(body, 1, k - 1), SubSeq(body, SkipSpaces(body, k), Len(body))>>
       IN  Cut(CHOOSE k \in 1..Len(body) :
                 IsHTMLSpaceChar(body[k]) /\ \A j \in 1..(k - 1) : ~IsHTMLSpaceChar(body[j]))

\* C23: Next on a frame <? T W I ?> of a target T without whitespace, a run of
\* whitespace W and an instruction I returns a ProcInst of target T and
\* instruction I; the instruction is empty when the frame holds no whitespace
\* and when only whitespace follows the target.
ProcInstSplit ==
  LET Decoded(f) ==
        /\ ret.kind = "Token" /\ ret.tok = "ProcInst"
        /\ <<Bytes(innerData.target), Bytes(innerData.inst)>>
             = TargetAndInst(SubSeq(f, 3, Len(f) - 2))
  IN  (/\ ret.op = "Next" /\ ret.frame # NilSlice /\ SLen(ret.frame) >= 4
       /\ HasPrefix(Bytes(ret.frame), <<"<", "?">>)
       /\ Sub(buf, ret.frame.hi - 2, ret.frame.hi) = <<"?", ">">>)
        => Decoded(Bytes(ret.frame))

\* Next has returned a processing instruction whose target and instruction
\* are two bytes of whitespace apart, and whose instruction holds whitespace.
ProcInstSplitWitness ==
  /\ ret.op = "Next" /\ ret.kind = "Token" /\ ret.tok = "ProcInst"
  /\ Bytes(innerData.target) = <<"x", "m", "l">>
  /\ Bytes(innerData.inst) = <<"b", " ", "c">>
  /\ innerData.inst.lo = innerData.target.hi + 2

\* What C24 says of a call of Next: it consumed a frame that begins at the
\* cursor, is not empty, holds no '<' and ends at the end of the buffer or
\* before a '<'.
CharDataFramed ==
  /\ ret.frame.lo = ret.cur0
  /\ currentPointer = ret.frame.hi
  /\ SLen(ret.frame) >= 1
  /\ \A i \in ret.frame.lo..(ret.frame.hi - 1) : At(buf, i) # "<"
  /\ (currentPointer = Len(buf) \/ At(buf, currentPointer) = "<")

\* C24 as stated: whenever the byte at the cursor is not '<', Next consumes
\* the bytes up to the first '<', or up to the end of the buffer when there is
\* none.
CharDataFramingAtCursor ==
  (ret.op = "Next" /\ ret.cur0 < Len(buf) /\ At(buf, ret.cur0) # "<")
    => CharDataFramed

\* C24: whenever no self-close is pending and the byte at the cursor is not
\* '<', Next consumes the bytes up to the first '<', or up to the end of the
\* buffer when there is none: the frame is not empty, holds no '<', and after
\* it the cursor is at the end of the buffer or on a '<'.
CharDataFraming ==
  (/\ ret.op = "Next" /\ Bytes(ret.last0) = <<>>
   /\ ret.cur0 < Len(buf) /\ At(buf, ret.cur0) # "<")
    => CharDataFramed

\* Next has consumed character data of more than one byte that stand between
\* two tags.
CharDataFramingWitness ==
  /\ ret.op = "Next" /\ ret.kind = "Token" /\ ret.tok = "CharData"
  /\ ret.cur0 > 0 /\ SLen(ret.frame) >= 2
  /\ currentPointer < Len(buf) /\ At(buf, currentPointer) = "<"

(***************************************************************************)
(* Properties of every sequence of calls.                                  *)
(***************************************************************************)
\* C25: every call of Next and of Peek returns a token, the end of the input
\* or an error: no step of framing or decoding reads or slices outside the
\* frame it was given.
NoOutOfRangeAccess ==
  ret.op \in {"Next", "Peek"} => ret.kind \in {"Token", "EOF", "Error"}

\* C26: the pending self-close is non-empty only while the last call of Next
\* is one that returned the StartToken of a self-closing frame, whose name it
\* then is; Peek never changes it; and Next synthesizes an EndElement only
\* directly after such a StartToken, so at most once for each self-closing tag.
PendingSelfCloseOneSlot ==
  [][/\ Bytes(lastTagName') # <<>>
          => SelfClosingStart(lastNext') /\ lastTagName' = lastNext'.name
     /\ ret'.op = "Peek" => lastTagName' = lastTagName
     /\ (ret'.op = "Next" /\ ret'.kind = "Token" /\ ret'.frame = NilSlice)
          => /\ ret'.tok = "EndElement"
             /\ SelfClosingStart(lastNext)
             /\ Bytes(lastTagName') = <<>>]_vars

\* Next has returned the EndElement of a self-closing tag that more bytes
\* follow, and no self-close is pending.
PendingSelfCloseOneSlotWitness ==
  /\ ret.op = "Next" /\ ret.kind = "Token" /\ ret.tok = "EndElement"
  /\ ret.frame = NilSlice /\ Bytes(ret.last0) # <<>>
  /\ Bytes(lastTagName) = <<>>
  /\ currentPointer < Len(buf)

\* The calls of Next that can still return a token: two for each byte that
\* is left, a start tag and its synthesized end, and one for a pending
\* self-close.
PullMeasure ==
  2 * (Len(buf) - currentPointer) + (IF Bytes(lastTagName) # <<>> THEN 1 ELSE 0)

\* C27: every call of Next returns a token, the end of the input or an error,
\* and a call that returns a token consumes at least one byte or clears the
\* pending self-close, which lowers PullMeasure, a natural number: a caller
\* that calls Next until the first result that is not a token receives the
\* end of the input or an error after finitely many calls.
PullLoopTerminates ==
  [][ret'.op = "Next"
       => /\ ret'.kind \in {"Token", "EOF", "Error"}
          /\ PullMeasure \in Nat
          /\ ret'.kind = "Token"
               => PullMeasure' \in Nat /\ PullMeasure' < PullMeasure]_vars

\* C28: a call of Next that advances the cursor consumes as its frame the
\* bytes from the cursor before the call to the cursor after it; the frames
\* consumed so far are not empty, the first begins at the start of the
\* buffer, each of the others where the one before it ends and the last ends
\* at the cursor; their concatenation is the buffer up to the cursor.
FramesTile ==
  /\ (ret.op = "Next" /\ currentPointer # ret.cur0)
       => ret.frame = Slice(ret.cur0, currentPointer) /\ ret.cur0 < currentPointer
  /\ \A i \in 1..Len(consumed) :
       /\ consumed[i].lo < consumed[i].hi
       /\ consumed[i].lo = IF i = 1 THEN 0 ELSE consumed[i - 1].hi
  /\ currentPointer = IF consumed = <<>> THEN 0 ELSE consumed[Len(consumed)].hi
  /\ Concat([i \in 1..Len(consumed) |-> Bytes(consumed[i])]) = Sub(buf, 0, currentPointer)

\* Next has consumed a whole buffer in three frames or more, the last of
\* which was decoded to a token.
FramesTileWitness ==
  /\ Len(consumed) >= 3
  /\ currentPointer = Len(buf)
  /\ ret.op = "Next" /\ ret.kind = "Token" /\ ret.frame = consumed[Len(consumed)]

(***************************************************************************)
(* Properties of the token objects that the parser shares.                 *)
(***************************************************************************)
\* C29: Peek puts back the cursor and the pending self-close only.  When Next
\* has returned a StartToken and Peek then decodes the start tag that follows,
\* the name and the attribute bytes of the shared StartToken are those of the
\* peeked tag, and a call of NextAttribute after that Peek returns an
\* attribute of the peeked tag.
PeekKeepsDecoded ==
  [][/\ ret'.op = "Peek"
          => currentPointer' = currentPointer /\ lastTagName' = lastTagName
     /\ (/\ lastNext.kind = "Token" /\ lastNext.tok = "StartToken"
         /\ ret'.op = "Peek" /\ ret'.kind = "Token" /\ ret'.tok = "StartToken")
          => /\ ret'.frame.lo = lastNext.frame.hi
             /\ innerData'.startName = Slice(ret'.frame.lo + 1, ret'.name.hi)
             /\ Within(innerData'.startName, ret'.frame.lo, ret'.frame.hi)
             /\ innerData'.startName # lastNext.name
             /\ \/ innerData'.attrBuf = NilSlice
                \/ /\ Within(innerData'.attrBuf, ret'.frame.lo, ret'.frame.hi)
                   /\ innerData'.attrBuf.hi = ret'.frame.hi
     /\ (/\ ret.op = "Peek" /\ ret.kind = "Token" /\ ret.tok = "StartToken"
         /\ ret'.op = "NextAttribute" /\ ret'.kind = "Attr")
          => /\ Within(ret'.name, ret.frame.lo, ret.frame.hi)
             /\ Within(ret'.value, ret.frame.lo, ret.frame.hi)]_vars

\* Next has returned the start tag a with the attribute b, Peek has decoded
\* the start tag c that follows, and NextAttribute has returned the attribute
\* d of c while the cursor is still before c.
PeekKeepsDecodedWitness ==
  /\ lastNext.kind = "Token" /\ lastNext.tok = "StartToken"
  /\ Bytes(lastNext.name) = <<"a">>
  /\ SLen(lastNext.frame) > 3
  /\ currentPointer = lastNext.frame.hi
  /\ ret.op = "NextAttribute" /\ ret.kind = "Attr"
  /\ Bytes(ret.name) = <<"d">> /\ Bytes(ret.value) = <<"2">>
  /\ Bytes(innerData.startName) = <<"c">>

\* No attribute that the iteration would still return from the attribute
\* bytes ab has the name n after its namespace prefix.
NoneLeftNamed(ab, n) ==
  LET None(pairs) == \A i \in 1..Len(pairs) : LocalName(pairs[i].name) # n
  IN  None(IterateAttributes(ab))

====
